---- MODULE Spec2Model ----
(***************************************************************************)
(* One conversational turn of the tool-augmented orchestrator              *)
(* get_return_status_response_with_tools (llm-server/llm/llm_service.py),  *)
(* together with the helpers it calls: list_tools,                         *)
(* transform_jsonrpc_to_openrouter_tools and MCPHTTPClient.call_tool, and  *)
(* one turn of its tool-less sibling                                       *)
(* get_return_status_response_with_history.                                *)
(*                                                                         *)
(* Python values are modelled structurally: a dict is a record, a list is  *)
(* a sequence, `"k" in d` is  "k" \in DOMAIN d,  None is NoneVal.  A call  *)
(* that may raise returns [raised |-> TRUE] or [raised |-> FALSE, value].  *)
(***************************************************************************)
EXTENDS Integers, Sequences, FiniteSets, TLC

\* ------------------------------------------------------------------ bounds
MaxHistory == 2
MaxToolCalls == 2
MaxTurns == 3
MaxRequests == 2
MaxTasks == 2

\* --------------------------------------------------------------- constants
MaxTokens == 1000
HttpOk == 200
InternalError == 500

NoneVal == "None"
Unassigned == "<unassigned>"
NoValue == [unassigned |-> TRUE]

SYSTEM_PROMPT ==
    [role |-> "system",
     content |-> "You are a customer service expert for 'Happy Returns'."]

FallbackText == "I'm sorry, but I'm unable to process your request at the moment."

Raised == [raised |-> TRUE]
Returned(v) == [raised |-> FALSE, value |-> v]

\* ------------------------------------------------------------- input sets
\* Messages a caller may hand in as prior history.
HistoryMessages ==
    { SYSTEM_PROMPT,
      [role |-> "system", content |-> "You are a helpful assistant."],
      [role |-> "system", content |-> SYSTEM_PROMPT.content, name |-> "ops"],
      [role |-> "user", content |-> "Hello"] }

RECURSIVE SeqsUpTo(_, _)
SeqsUpTo(S, n) ==
    IF n = 0 THEN { <<>> }
    ELSE LET shorter == SeqsUpTo(S, n - 1)
         IN  shorter \cup { Append(s, x) : s \in { t \in shorter : Len(t) = n - 1 }, x \in S }

Histories == SeqsUpTo(HistoryMessages, MaxHistory)

Queries == { "What's my return status for order HR123456?" }

\* ------------------------------------------------------ transcript manager
\* seed without the branch that replaces a differing system message
seed_prepend_only(history) ==
    IF history = <<>> \/ history[1].role # "system"
    THEN <<SYSTEM_PROMPT>> \o history
    ELSE history

\* the canonical message inserted in front of whatever the history holds
seed_always_insert(history) == <<SYSTEM_PROMPT>> \o history

\* a system head with other text kept, the canonical message put before it
seed_replace_by_insert(history) ==
    IF history = <<>> \/ history[1].role # "system"
    THEN <<SYSTEM_PROMPT>> \o history
    ELSE IF history[1].role = "system" /\ history[1].content # SYSTEM_PROMPT.content
         THEN <<SYSTEM_PROMPT>> \o history
         ELSE history

seed(history) ==
    IF history = <<>> \/ history[1].role # "system"
    THEN <<SYSTEM_PROMPT>> \o history
    ELSE IF history[1].role = "system" /\ history[1].content # SYSTEM_PROMPT.content
         THEN <<SYSTEM_PROMPT>> \o Tail(history)
         ELSE history

\* the user query left out of the transcript
append_user_skipped(history, text) == history

append_user(history, text) == Append(history, [role |-> "user", content |-> text])

\* the reply recorded under the user's role
append_assistant_as_user(history, content) ==
    Append(history, [role |-> "user", content |-> content])

append_assistant(history, content) ==
    Append(history, [role |-> "assistant", content |-> content])

\* --------------------------------------------------- tool catalog resolver
\* list_tools returns either a Python list or a Python dict; the two are
\* kept apart by wrapping the list:  PyList(s)  is the list s,
\* ErrorDict(t)  is the dict {"error": t}.
PyList(items) == [list |-> items]
ErrorDict(text) == [error |-> text]
IsList(v) == "list" \in DOMAIN v

EmptyDict == [k \in {} |-> NoneVal]

LookupTool ==
    [name |-> "get_return_by_confirmation_code",
     description |-> "Look up a return by confirmation code",
     inputSchema |-> [type |-> "object", required |-> <<"confirmation_code">>]]

LabelTool ==
    [name |-> "get_shipping_label",
     description |-> "Fetch the shipping label of a return",
     inputSchema |-> [type |-> "object", required |-> <<"return_id">>]]

BrokenTool == [name |-> "no_schema", description |-> "A tool without inputSchema"]

\* JSON bodies the tool provider may answer a tools/list request with.
DiscoveryBodies ==
    { EmptyDict,
      [error |-> [code |-> "-32601", message |-> "Method not found"]],
      [result |-> [nextCursor |-> "c1"]],
      [result |-> [tools |-> <<>>]],
      [result |-> [tools |-> <<LookupTool>>]],
      [result |-> [tools |-> <<LabelTool, LookupTool>>]],
      [result |-> [tools |-> <<LookupTool, BrokenTool>>]] }

\* What the POST in list_tools can come back with.
DiscoveryOutcomes ==
    { [kind |-> "network_error"], [kind |-> "timeout"],
      [kind |-> "http", status |-> 500, json |-> EmptyDict] }
        \cup { [kind |-> "http", status |-> HttpOk, json |-> b] : b \in DiscoveryBodies }

ToolKeys == { "name", "description", "inputSchema" }

\* the provider's tools passed on under their own schema key
transform_keeping_inputSchema(jsonrpc_response) ==
    IF /\ DOMAIN jsonrpc_response # {}
       /\ "result" \in DOMAIN jsonrpc_response
       /\ "tools" \in DOMAIN jsonrpc_response.result
    THEN LET tools == jsonrpc_response.result.tools
         IN  IF \A i \in DOMAIN tools : ToolKeys \subseteq DOMAIN tools[i]
             THEN Returned([ i \in DOMAIN tools |->
                              [type |-> "function",
                               function |-> [name |-> tools[i].name,
                                             description |-> tools[i].description,
                                             inputSchema |-> tools[i].inputSchema]] ])
             ELSE Raised
    ELSE Returned(<<>>)

transform_jsonrpc_to_openrouter_tools(jsonrpc_response) ==
    IF /\ DOMAIN jsonrpc_response # {}
       /\ "result" \in DOMAIN jsonrpc_response
       /\ "tools" \in DOMAIN jsonrpc_response.result
    THEN LET tools == jsonrpc_response.result.tools
         IN  IF \A i \in DOMAIN tools : ToolKeys \subseteq DOMAIN tools[i]
             THEN Returned([ i \in DOMAIN tools |->
                              [type |-> "function",
                               function |-> [name |-> tools[i].name,
                                             description |-> tools[i].description,
                                             parameters |-> tools[i].inputSchema]] ])
             ELSE Raised      \* KeyError on tool["..."]
    ELSE Returned(<<>>)

\* raise_for_status raises for 4xx and 5xx replies
raise_for_status(status) == status >= 400

list_tools(outcome) ==
    IF outcome.kind # "http"
    THEN ErrorDict(outcome.kind)
    ELSE IF raise_for_status(outcome.status)
         THEN ErrorDict("status")
         ELSE LET t == transform_jsonrpc_to_openrouter_tools(outcome.json)
              IN  IF t.raised THEN ErrorDict("KeyError") ELSE PyList(t.value)

\* ------------------------------------------------------- completion client
GoodArguments == "{\"confirmation_code\": \"HR123456\"}"
BadArguments == "{\"confirmation_code\": "

\* json.loads on the argument texts above
json_loads(text) ==
    IF text = GoodArguments
    THEN Returned([confirmation_code |-> "HR123456"])
    ELSE Raised

\* The calls a reply may request: a lookup with well-formed arguments, a
\* lookup whose arguments text is cut short, a label fetch.
CallShapes ==
    { [name |-> "get_return_by_confirmation_code", arguments |-> GoodArguments],
      [name |-> "get_return_by_confirmation_code", arguments |-> BadArguments],
      [name |-> "get_shipping_label", arguments |-> GoodArguments] }

\* Call ids are opaque and distinct within a reply; the i-th of n calls is
\* numbered i or n + 1 - i.
CallIdOrders(n) == { [i \in 1 .. n |-> i], [i \in 1 .. n |-> n + 1 - i] }

\* tool_calls lists of a reply: 1..MaxToolCalls calls
ToolCallLists ==
    { [i \in DOMAIN shapes |-> [id |-> ids[i], function |-> shapes[i]]] :
        <<shapes, ids>> \in
            UNION { { <<sh, order>> : order \in CallIdOrders(Len(sh)) } :
                      sh \in SeqsUpTo(CallShapes, MaxToolCalls) \ { <<>> } } }

ReplyText == "Your return HR123456 has been received."

ReplyMessages ==
    { [role |-> "assistant", content |-> ReplyText],
      [role |-> "assistant", content |-> NoneVal],
      [role |-> "assistant"],
      [role |-> "assistant", content |-> ReplyText, tool_calls |-> <<>>] }
        \cup { [role |-> "assistant", content |-> NoneVal, tool_calls |-> tcs] :
                 tcs \in ToolCallLists }

\* What openai.ChatCompletion.create can come back with.
CompletionOutcomes ==
    { Raised,
      Returned([error |-> [message |-> "Rate limit exceeded", code |-> 429]]),
      Returned([id |-> "gen-1"]),
      Returned([choices |-> <<>>]) }
        \cup { Returned([choices |-> <<[message |-> m]>>]) : m \in ReplyMessages }

\* Replies to the second call; a reply may still carry tool calls (one call
\* is enough to show what happens to them).
SecondCompletionOutcomes ==
    { c \in CompletionOutcomes :
        (/\ ~c.raised
         /\ "choices" \in DOMAIN c.value
         /\ c.value.choices # <<>>
         /\ "tool_calls" \in DOMAIN c.value.choices[1].message)
            => Len(c.value.choices[1].message.tool_calls) <= 1 }

\* completion["choices"][0]["message"]: KeyError / IndexError when absent
first_message(body) ==
    IF /\ "choices" \in DOMAIN body
       /\ body.choices # <<>>
       /\ "message" \in DOMAIN body.choices[1]
    THEN Returned(body.choices[1].message)
    ELSE Raised

\* --------------------------------------------------- tool invocation bridge
DictResult == [status |-> "received", text |-> "Return HR123456 received"]
TextResult == "received"

\* What the POST in MCPHTTPClient.call_tool can come back with: a transport
\* failure, a non-200 status, or a 200 whose JSON body is a dict or a string.
InvokeOutcomes ==
    { [kind |-> "network_error"],
      [kind |-> "http", status |-> 500],
      [kind |-> "http", status |-> HttpOk, isdict |-> TRUE, json |-> DictResult],
      [kind |-> "http", status |-> HttpOk, isdict |-> FALSE, text |-> TextResult] }

call_tool(outcome) ==
    IF outcome.kind # "http"
    THEN Raised
    ELSE IF outcome.status = HttpOk
         THEN IF outcome.isdict
              THEN [raised |-> FALSE, isdict |-> TRUE, value |-> outcome.json]
              ELSE [raised |-> FALSE, isdict |-> FALSE, text |-> outcome.text]
         ELSE Raised

\* json.dumps on the result dicts above
json_dumps(d) ==
    IF d = DictResult
    THEN "{\"status\": \"received\", \"text\": \"Return HR123456 received\"}"
    ELSE "{}"

\* a tool result appended with the role of the older function-calling API
tool_message_as_function(tool_call, tool_result) ==
    [role |-> "function",
     tool_call_id |-> tool_call.id,
     name |-> tool_call.function.name,
     content |-> IF tool_result.isdict THEN json_dumps(tool_result.value)
                 ELSE tool_result.text]

\* a tool result that carries a fixed name instead of the called function's
tool_message_fixed_name(tool_call, tool_result) ==
    [role |-> "tool",
     tool_call_id |-> tool_call.id,
     name |-> "function",
     content |-> IF tool_result.isdict THEN json_dumps(tool_result.value)
                 ELSE tool_result.text]

tool_message(tool_call, tool_result) ==
    [role |-> "tool",
     tool_call_id |-> tool_call.id,
     name |-> tool_call.function.name,
     content |-> IF tool_result.isdict THEN json_dumps(tool_result.value)
                 ELSE tool_result.text]

\* -------------------------------------------------------------- variables
VARIABLES
    entry,                 \* which of the two turn functions was called
    pc,                    \* position of the turn in the function body
    chat_history,          \* argument: the caller's history list (its items)
    customer_query,        \* argument: the new user text
    conversation_object,   \* which list object current_conversation names
    current_conversation,  \* local: the transcript being built
    openai_tools,          \* local: what list_tools returned
    assistant_message,     \* local: the first reply's message
    tool_index,            \* position of the for loop over tool_calls
    first_request,         \* keyword arguments of the first create call
    completion,            \* local: outcome of the first create call
    second_request,        \* keyword arguments of the second create call
    second_completion,     \* local: outcome of the second create call
    invoked,               \* log of mcp_client.call_tool calls
    discovery,             \* log: how the discovery request ended
    jsonrpc_response,      \* log: the JSON body list_tools received
    calls,                 \* log: the external calls of the turn, in order
    failure,               \* log: where the exception reaching `except` arose
    response_text,         \* first component of the returned pair
    turn,                  \* number of the turn in the caller's conversation
    returned,              \* transcripts returned by the earlier turns
    mcp_client,            \* main.py: the global tool-provider client
    startup,               \* main.py: position of startup_event
    startup_error,         \* log: the step of startup_event that raised
    session_initialized,   \* whether the initialize handshake completed
    OPENROUTER_API_KEY,    \* main.py: the key read from the environment
    responses,             \* log: the HTTP responses the server has sent
    task_pc,               \* position of each concurrently running turn
    task_calls,            \* tool calls the first reply of each turn asked for
    task_index,            \* loop position of each concurrently running turn
    running                \* the turn executing on the event loop's thread, or 0

turn_vars == <<entry, pc, chat_history, customer_query, conversation_object,
               current_conversation, openai_tools, assistant_message, tool_index,
               first_request, completion, second_request, second_completion,
               invoked, discovery, jsonrpc_response, calls, failure,
               response_text, turn, returned>>

server == <<mcp_client, startup, startup_error, session_initialized,
            OPENROUTER_API_KEY, responses>>

loop == <<task_pc, task_calls, task_index, running>>

vars == <<turn_vars, server, loop>>

args == <<entry, customer_query>>

caller == <<turn, returned>>

Entries == { "with_tools", "with_history" }

Terminal == { "done", "fallback" }

Tasks == 1 .. MaxTasks

\* main.py lines 52-55 before startup_event has run
ServerStart ==
    /\ mcp_client = NoneVal
    /\ startup = "start"
    /\ startup_error = "none"
    /\ session_initialized = FALSE
    /\ responses = <<>>

\* no turn has been started on the event loop
LoopStart ==
    /\ task_pc = [t \in Tasks |-> "init"]
    /\ task_calls = [t \in Tasks |-> 0]
    /\ task_index = [t \in Tasks |-> 0]
    /\ running = 0

Init ==
    /\ ServerStart
    /\ OPENROUTER_API_KEY = "sk-or"
    /\ LoopStart
    /\ entry \in Entries
    /\ pc = "init"
    /\ chat_history \in Histories
    /\ customer_query \in Queries
    /\ conversation_object = "unbound"
    /\ current_conversation = <<>>
    /\ openai_tools = NoValue
    /\ assistant_message = NoValue
    /\ tool_index = 0
    /\ first_request = NoValue
    /\ completion = NoValue
    /\ second_request = NoValue
    /\ second_completion = NoValue
    /\ invoked = <<>>
    /\ discovery = "none"
    /\ jsonrpc_response = NoValue
    /\ calls = <<>>
    /\ failure = "none"
    /\ response_text = Unassigned
    /\ turn = 1
    /\ returned = <<>>

\* current_conversation = chat_history: the local names the caller's list
list_alias(history) == [object |-> "same", items |-> history]

\* lines 169 and 110, list(chat_history): a new list object with the same items
list_copy(history) == [object |-> "new", items |-> history]

\* The items of the caller's list after a step: every insert, assignment and
\* append on current_conversation lands in the caller's list exactly when both
\* names refer to the same list object.
caller_list_after(object, caller_items, local_items) ==
    IF object = "same" THEN local_items ELSE caller_items

CallerList ==
    chat_history' =
        caller_list_after(conversation_object', chat_history, current_conversation')

\* lines 168-179 (with_tools) and 109-121 (with_history): copy the history,
\* seed it, append the user query
BeginTurn ==
    /\ pc = "init"
    /\ LET local == list_copy(chat_history)
       IN  /\ conversation_object' = local.object
           /\ current_conversation' = append_user(seed(local.items), customer_query)
    /\ pc' = IF entry = "with_tools" THEN "list_tools" ELSE "completion"
    /\ UNCHANGED <<args, caller, server, loop, openai_tools, assistant_message, tool_index,
                   first_request, completion, second_request, second_completion,
                   invoked, discovery, jsonrpc_response, calls, failure,
                   response_text>>
    /\ CallerList

discovery_kind(outcome) ==
    IF outcome.kind # "http" THEN outcome.kind
    ELSE IF raise_for_status(outcome.status) THEN "status" ELSE "replied"

\* line 184: openai_tools = await list_tools()
ListTools ==
    /\ pc = "list_tools"
    /\ \E outcome \in DiscoveryOutcomes :
          /\ openai_tools' = list_tools(outcome)
          /\ discovery' = discovery_kind(outcome)
          /\ jsonrpc_response' =
                IF discovery_kind(outcome) = "replied" THEN outcome.json ELSE NoValue
    /\ calls' = Append(calls, "list_tools")
    /\ pc' = "first_completion"
    /\ UNCHANGED <<args, caller, server, loop, conversation_object, current_conversation,
                   assistant_message, tool_index, first_request, completion,
                   second_request, second_completion, invoked, failure,
                   response_text>>
    /\ CallerList

\* the except clause returning the fallback text without appending it
Fallback_without_append(where) ==
    /\ current_conversation' = current_conversation
    /\ response_text' = FallbackText
    /\ failure' = where
    /\ pc' = "fallback"

\* lines 242-247: the except clause
Fallback(where) ==
    /\ current_conversation' = append_assistant(current_conversation, FallbackText)
    /\ response_text' = FallbackText
    /\ failure' = where
    /\ pc' = "fallback"

has_tool_calls(message) ==
    "tool_calls" \in DOMAIN message /\ message.tool_calls # <<>>

\* the assistant message of the first reply left out of the transcript
append_tool_request_skipped(history, message) == history

\* line 205: the assistant message with its tool calls goes into the transcript
append_tool_request(history, message) == Append(history, message)

FirstRequest ==
    [model |-> "openai/gpt-3.5-turbo",
     messages |-> current_conversation,
     max_tokens |-> MaxTokens,
     tools |-> openai_tools,
     tool_choice |-> "auto"]

\* lines 187-205 and 235-240: first completion and the branch on its reply
FirstCompletion ==
    /\ pc = "first_completion"
    /\ first_request' = FirstRequest
    /\ calls' = Append(calls, "create")
    /\ \E reply \in CompletionOutcomes :
          /\ completion' = reply
          /\ IF reply.raised
             THEN Fallback("first_completion")
                  /\ UNCHANGED <<assistant_message, tool_index>>
             ELSE IF "error" \in DOMAIN reply.value
             THEN Fallback("first_completion")
                  /\ UNCHANGED <<assistant_message, tool_index>>
             ELSE IF first_message(reply.value).raised
             THEN Fallback("first_completion")
                  /\ UNCHANGED <<assistant_message, tool_index>>
             ELSE LET message == first_message(reply.value).value
                  IN  IF has_tool_calls(message)
                      THEN /\ assistant_message' = message
                           /\ current_conversation' =
                                 append_tool_request(current_conversation, message)
                           /\ tool_index' = 1
                           /\ pc' = "executing_tools"
                           /\ UNCHANGED <<failure, response_text>>
                      ELSE IF "content" \notin DOMAIN message
                      THEN Fallback("first_completion")
                           /\ assistant_message' = message
                           /\ UNCHANGED tool_index
                      ELSE /\ assistant_message' = message
                           /\ response_text' = message.content
                           /\ current_conversation' =
                                 append_assistant(current_conversation, message.content)
                           /\ pc' = "done"
                           /\ UNCHANGED <<failure, tool_index>>
    /\ UNCHANGED <<args, caller, server, loop, conversation_object, openai_tools, second_request,
                   second_completion, invoked, discovery, jsonrpc_response>>
    /\ CallerList

\* the loop left after its first iteration
loop_exhausted_after_first(index, tool_calls) == TRUE

\* line 208: the for loop ends after the last element of tool_calls
loop_exhausted(index, tool_calls) == index = Len(tool_calls)

\* the loop staying on the same call
next_index_same(index) == index

\* the loop starting over at the first call
next_index_restart(index) == 1

\* line 208: the for loop moves on to the next element of tool_calls
next_index(index) == index + 1

\* lines 208-223: one iteration of the loop over tool_calls
ExecuteTool ==
    /\ pc = "executing_tools"
    /\ LET tool_call == assistant_message.tool_calls[tool_index]
           function_args == json_loads(tool_call.function.arguments)
       IN  IF function_args.raised
           THEN /\ Fallback("arguments")
                /\ UNCHANGED <<invoked, tool_index, calls>>
           ELSE \E outcome \in InvokeOutcomes :
                  LET tool_result == call_tool(outcome)
                  IN  /\ invoked' = Append(invoked,
                                           [id |-> tool_call.id,
                                            name |-> tool_call.function.name,
                                            arguments |-> function_args.value,
                                            raised |-> tool_result.raised])
                      /\ calls' = Append(calls, "call_tool")
                      /\ IF tool_result.raised
                         THEN /\ Fallback("invocation")
                              /\ UNCHANGED tool_index
                         ELSE /\ current_conversation' =
                                    Append(current_conversation,
                                           tool_message(tool_call, tool_result))
                              /\ tool_index' = next_index(tool_index)
                              /\ pc' = IF loop_exhausted(tool_index,
                                                         assistant_message.tool_calls)
                                       THEN "final_completion"
                                       ELSE "executing_tools"
                              /\ UNCHANGED <<failure, response_text>>
    /\ UNCHANGED <<args, caller, server, loop, conversation_object, openai_tools,
                   assistant_message, first_request, completion, second_request,
                   second_completion, discovery, jsonrpc_response>>
    /\ CallerList

\* the second request built like the first one, tools included
SecondRequest_with_tools ==
    [model |-> "openai/gpt-3.5-turbo",
     messages |-> current_conversation,
     max_tokens |-> MaxTokens,
     tools |-> openai_tools,
     tool_choice |-> "auto"]

SecondRequest ==
    [model |-> "openai/gpt-3.5-turbo",
     messages |-> current_conversation,
     max_tokens |-> MaxTokens]

\* lines 226-234: second completion over the tool results
FinalCompletion ==
    /\ pc = "final_completion"
    /\ second_request' = SecondRequest
    /\ calls' = Append(calls, "create")
    /\ \E reply \in SecondCompletionOutcomes :
          /\ second_completion' = reply
          /\ IF reply.raised
             THEN Fallback("second_completion")
             ELSE IF first_message(reply.value).raised
             THEN Fallback("second_completion")
             ELSE LET message == first_message(reply.value).value
                  IN  IF "content" \notin DOMAIN message
                      THEN Fallback("second_completion")
                      ELSE /\ response_text' = message.content
                           /\ current_conversation' =
                                 append_assistant(current_conversation, message.content)
                           /\ pc' = "done"
                           /\ UNCHANGED failure
    /\ UNCHANGED <<args, caller, server, loop, conversation_object, openai_tools,
                   assistant_message, tool_index, first_request, completion,
                   invoked, discovery, jsonrpc_response>>
    /\ CallerList

HistoryRequest ==
    [model |-> "openai/gpt-3.5-turbo",
     messages |-> current_conversation,
     max_tokens |-> MaxTokens]

\* get_return_status_response_with_history, lines 123-152: the only
\* completion of the tool-less turn.  A dict reply without "choices" takes
\* the attribute branch of line 141 and raises there.
HistoryCompletion ==
    /\ pc = "completion"
    /\ first_request' = HistoryRequest
    /\ calls' = Append(calls, "create")
    /\ \E reply \in CompletionOutcomes :
          /\ completion' = reply
          /\ IF reply.raised
             THEN Fallback("first_completion")
             ELSE IF "error" \in DOMAIN reply.value
             THEN Fallback("first_completion")
             ELSE IF first_message(reply.value).raised
             THEN Fallback("first_completion")
             ELSE LET message == first_message(reply.value).value
                  IN  IF "content" \notin DOMAIN message
                      THEN Fallback("first_completion")
                      ELSE /\ response_text' = message.content
                           /\ current_conversation' =
                                 append_assistant(current_conversation, message.content)
                           /\ pc' = "done"
                           /\ UNCHANGED failure
    /\ UNCHANGED <<args, caller, server, loop, conversation_object, openai_tools,
                   assistant_message, tool_index, second_request,
                   second_completion, invoked, discovery, jsonrpc_response>>
    /\ CallerList

Next ==
    \/ BeginTurn
    \/ HistoryCompletion
    \/ ListTools
    \/ FirstCompletion
    \/ ExecuteTool
    \/ FinalCompletion

Spec == Init /\ [][Next]_vars

\* every external call is awaited or made synchronously with no retry loop
\* around it: a call that returns or fails lets the turn take its next step
SpecLive == Init /\ [][Next]_vars /\ WF_vars(Next)

TypeOK ==
    /\ entry \in Entries
    /\ pc \in { "init", "list_tools", "completion", "first_completion",
                "executing_tools", "final_completion", "done", "fallback" }
    /\ tool_index \in 0 .. MaxToolCalls + 1
    /\ failure \in { "none", "first_completion", "arguments", "invocation",
                     "second_completion" }
    /\ conversation_object \in { "unbound", "new", "same" }

\* ------------------------------------------------- vocabulary of the claims
\* tool calls requested by the first reply of this turn
RequestedCalls ==
    IF has_tool_calls(assistant_message) THEN assistant_message.tool_calls ELSE <<>>

\* index of the turn's assistant tool-call message in the transcript
AssistantIndex == Len(seed(chat_history)) + 2

\* the messages appended after the assistant tool-call message
AfterAssistant ==
    SubSeq(current_conversation, AssistantIndex + 1, Len(current_conversation))

IsToolMessage(m) == m.role = "tool"

ToolMessagesAfterAssistant == SelectSeq(AfterAssistant, IsToolMessage)

\* every call id requested at index k has a tool-role message after k
Paired(transcript, k) ==
    \A c \in DOMAIN transcript[k].tool_calls :
        \E j \in (k + 1) .. Len(transcript) :
            /\ transcript[j].role = "tool"
            /\ transcript[j].tool_call_id = transcript[k].tool_calls[c].id

WellFormed(transcript) ==
    \A k \in DOMAIN transcript :
        has_tool_calls(transcript[k]) => Paired(transcript, k)

\* the first create call failed: exception, error reply, no choices structure
CompletionFailed(outcome) ==
    \/ outcome.raised
    \/ "error" \in DOMAIN outcome.value
    \/ "choices" \notin DOMAIN outcome.value
    \/ outcome.value.choices = <<>>

FallbackTranscript ==
    seed(chat_history)
        \o << [role |-> "user", content |-> customer_query],
              [role |-> "assistant", content |-> FallbackText] >>

DiscoveryFailed == discovery \in { "network_error", "timeout", "status" }

IsPrefix(s, t) == Len(s) <= Len(t) /\ SubSeq(t, 1, Len(s)) = s

\* ------------------------------------------------- a conversation of turns
\* llm_service.py lines 250-286: the caller hands the transcript a turn
\* returned to the next turn as its history.  Every call starts with fresh
\* locals.
NextTurn ==
    /\ pc \in Terminal
    /\ turn < MaxTurns
    /\ returned' = Append(returned, current_conversation)
    /\ chat_history' = current_conversation
    /\ turn' = turn + 1
    /\ entry' \in Entries
    /\ customer_query' \in Queries
    /\ pc' = "init"
    /\ conversation_object' = "unbound"
    /\ current_conversation' = <<>>
    /\ openai_tools' = NoValue
    /\ assistant_message' = NoValue
    /\ tool_index' = 0
    /\ first_request' = NoValue
    /\ completion' = NoValue
    /\ second_request' = NoValue
    /\ second_completion' = NoValue
    /\ invoked' = <<>>
    /\ discovery' = "none"
    /\ jsonrpc_response' = NoValue
    /\ calls' = <<>>
    /\ failure' = "none"
    /\ response_text' = Unassigned
    /\ UNCHANGED <<server, loop>>

\* The replies considered in a conversation of several turns: discovery
\* fails or lists one tool; a completion raises, answers with text or asks
\* for a single lookup; an invocation raises or returns a dict.
ConversationCompletions ==
    { Raised,
      Returned([choices |-> <<[message |->
                                [role |-> "assistant", content |-> ReplyText]]>>]) }
        \cup { Returned([choices |-> <<[message |->
                  [role |-> "assistant", content |-> NoneVal,
                   tool_calls |-> <<[id |-> 1, function |-> shape]>>]]>>]) :
                 shape \in { c \in CallShapes :
                               c.name = "get_return_by_confirmation_code" } }

ConversationReplies ==
    /\ discovery \in { "none", "network_error", "replied" }
    /\ jsonrpc_response \in { NoValue, [result |-> [tools |-> <<LookupTool>>]] }
    /\ completion \in { NoValue } \cup ConversationCompletions
    /\ second_completion \in { NoValue } \cup ConversationCompletions
    /\ \A i \in DOMAIN current_conversation :
          current_conversation[i].role = "tool"
              => current_conversation[i].content # TextResult

NextConversation ==
    \/ NextTurn
    \/ BeginTurn /\ ConversationReplies'
    \/ HistoryCompletion /\ ConversationReplies'
    \/ ListTools /\ ConversationReplies'
    \/ FirstCompletion /\ ConversationReplies'
    \/ ExecuteTool /\ ConversationReplies'
    \/ FinalCompletion /\ ConversationReplies'

SpecConversation == Init /\ [][NextConversation]_vars

\* ------------------------------------------------------ the HTTP server
\* main.py: the turn is left in its initial state while the server runs
TurnAtRest ==
    /\ entry = "with_tools"
    /\ pc = "init"
    /\ chat_history = <<>>
    /\ customer_query \in Queries
    /\ conversation_object = "unbound"
    /\ current_conversation = <<>>
    /\ openai_tools = NoValue
    /\ assistant_message = NoValue
    /\ tool_index = 0
    /\ first_request = NoValue
    /\ completion = NoValue
    /\ second_request = NoValue
    /\ second_completion = NoValue
    /\ invoked = <<>>
    /\ discovery = "none"
    /\ jsonrpc_response = NoValue
    /\ calls = <<>>
    /\ failure = "none"
    /\ response_text = Unassigned
    /\ turn = 1
    /\ returned = <<>>

NotConfigured == "OpenRouter API key not configured"
NotInitialized == "MCP client not initialized"

\* an exception seen by an except clause; HTTPException carries a status code
ErrorRaised(text) == [type |-> "Exception", text |-> text]
HTTPException(status_code, detail) ==
    [type |-> "HTTPException", status_code |-> status_code, text |-> detail]

\* the response FastAPI sends for an HTTPException that leaves the handler
error_response(exception) ==
    [status_code |-> exception.status_code, detail |-> exception.text]

\* except Exception as e: raise HTTPException(status_code=500, detail=str(e));
\* HTTPException is a subclass of Exception, so the clause catches it too
except_Exception(e) == HTTPException(InternalError, e.text)

\* status codes the completion service may answer with
UpstreamStatuses == { HttpOk, 429, 503 }

\* what the POST to the completion service can come back with
UpstreamOutcomes ==
    { [kind |-> "network_error"] }
        \cup { [kind |-> "http", status |-> st, body |-> b] :
                 st \in UpstreamStatuses, b \in { "completion", "no_choices" } }

\* what a method of the tool-provider session can come back with
SessionOutcomes == { "returned", "raised" }

\* lines 152-162 and 280-297: the part of the try block after the POST
after_post(outcome) ==
    IF outcome.kind # "http"
    THEN Raised @@ [exception |-> ErrorRaised("ConnectError")]
    ELSE IF outcome.status # HttpOk
    THEN Raised @@ [exception |-> HTTPException(outcome.status, "upstream error text")]
    ELSE IF outcome.body = "no_choices"
    THEN Raised @@ [exception |-> ErrorRaised("KeyError")]
    ELSE Returned("text of the reply")

\* the response of a handler whose try block ended as `result`
try_response(result) ==
    IF result.raised
    THEN error_response(except_Exception(result.exception))
    ELSE [status_code |-> HttpOk, body |-> result.value]

upstream_of(outcome) ==
    IF outcome.kind = "http" THEN [upstream_status |-> outcome.status]
    ELSE [upstream_failed |-> TRUE]

\* the session a handler used, and whether it had completed its handshake
client_of == [client_initialized |-> session_initialized]

Respond(endpoint, response) ==
    /\ responses' = Append(responses, [endpoint |-> endpoint] @@ response)
    /\ UNCHANGED <<mcp_client, startup, startup_error, session_initialized,
                   OPENROUTER_API_KEY>>
    /\ UNCHANGED <<turn_vars, loop>>

Serving == startup = "complete" /\ Len(responses) < MaxRequests

\* lines 71-84: the stdio connection and the assignment of the global
startup_event_connect ==
    /\ startup = "start"
    /\ \E step \in { "returned", "raised" } :
          IF step = "raised"
          THEN /\ startup_error' = "stdio_client"
               /\ startup' = "complete"
               /\ UNCHANGED mcp_client
          ELSE /\ mcp_client' = "ClientSession"
               /\ startup' = "connected"
               /\ UNCHANGED startup_error
    /\ UNCHANGED <<session_initialized, OPENROUTER_API_KEY, responses>>
    /\ UNCHANGED <<turn_vars, loop>>

\* lines 86-90: the initialize handshake and the except clause, which logs
startup_event_initialize ==
    /\ startup = "connected"
    /\ \E step \in { "returned", "raised" } :
          IF step = "raised"
          THEN /\ startup_error' = "initialize"
               /\ UNCHANGED session_initialized
          ELSE /\ session_initialized' = TRUE
               /\ UNCHANGED startup_error
    /\ startup' = "complete"
    /\ UNCHANGED <<mcp_client, OPENROUTER_API_KEY, responses>>
    /\ UNCHANGED <<turn_vars, loop>>

\* lines 102-166
generate_text ==
    /\ Serving
    /\ \E tools \in SessionOutcomes, outcome \in UpstreamOutcomes :
          IF OPENROUTER_API_KEY = ""
          THEN Respond("/generate",
                       error_response(HTTPException(InternalError, NotConfigured)))
          ELSE IF mcp_client = NoneVal
          THEN Respond("/generate",
                       error_response(HTTPException(InternalError, NotInitialized)))
          ELSE IF tools = "raised"
          THEN Respond("/generate",
                       try_response(Raised @@ [exception |-> ErrorRaised("McpError")])
                           @@ client_of)
          ELSE Respond("/generate",
                       try_response(after_post(outcome)) @@ client_of
                           @@ upstream_of(outcome))

\* lines 169-184
execute_tool ==
    /\ Serving
    /\ \E call \in SessionOutcomes :
          IF mcp_client = NoneVal
          THEN Respond("/execute_tool",
                       error_response(HTTPException(InternalError, NotInitialized)))
          ELSE IF call = "raised"
          THEN Respond("/execute_tool",
                       try_response(Raised @@ [exception |-> ErrorRaised("McpError")])
                           @@ client_of)
          ELSE Respond("/execute_tool",
                       try_response(Returned("tool result")) @@ client_of)

\* lines 187-198
get_available_tools ==
    /\ Serving
    /\ \E tools \in SessionOutcomes :
          IF mcp_client = NoneVal
          THEN Respond("/available_tools",
                       error_response(HTTPException(InternalError, NotInitialized)))
          ELSE IF tools = "raised"
          THEN Respond("/available_tools",
                       try_response(Raised @@ [exception |-> ErrorRaised("McpError")])
                           @@ client_of)
          ELSE Respond("/available_tools",
                       try_response(Returned("tools")) @@ client_of)

\* lines 241-301
handle_chat_message ==
    /\ Serving
    /\ \E outcome \in UpstreamOutcomes :
          Respond("/api/chat", try_response(after_post(outcome)) @@ upstream_of(outcome))

InitServer ==
    /\ TurnAtRest
    /\ ServerStart
    /\ OPENROUTER_API_KEY \in { "", "sk-or" }
    /\ LoopStart

NextServer ==
    \/ startup_event_connect
    \/ startup_event_initialize
    \/ generate_text
    \/ execute_tool
    \/ get_available_tools
    \/ handle_chat_message

SpecServer == InitServer /\ [][NextServer]_vars

\* -------------------------------------------- turns sharing one event loop
\* llm_service.py lines 154-247 cut at the calls that wait for the network:
\* `await list_tools()` and `await mcp_client.call_tool(...)` hand the thread
\* back to the event loop, openai.ChatCompletion.create(...) is called
\* without await and keeps the thread until it returns.
Suspend(t, position) ==
    /\ task_pc' = [task_pc EXCEPT ![t] = position]
    /\ running' = 0

KeepThread(t, position) ==
    /\ task_pc' = [task_pc EXCEPT ![t] = position]
    /\ running' = t

\* lines 168-184: up to the await of the discovery request
TaskBegin(t) ==
    /\ running = 0
    /\ task_pc[t] = "init"
    /\ Suspend(t, "await_list_tools")
    /\ UNCHANGED <<task_calls, task_index>>
    /\ UNCHANGED <<turn_vars, server>>

\* lines 184-193: list_tools returns, the first create call is made
TaskFirstRequest(t) ==
    /\ running = 0
    /\ task_pc[t] = "await_list_tools"
    /\ KeepThread(t, "in_first_create")
    /\ UNCHANGED <<task_calls, task_index>>
    /\ UNCHANGED <<turn_vars, server>>

\* lines 196-215 and 237-247: the first reply, up to the first await of
\* call_tool or to a return statement
TaskFirstReply(t) ==
    /\ running = t
    /\ task_pc[t] = "in_first_create"
    /\ \E requested \in 0 .. MaxToolCalls, step \in { "returned", "raised" } :
          IF step = "raised"
          THEN /\ Suspend(t, "fallback")
               /\ UNCHANGED <<task_calls, task_index>>
          ELSE IF requested = 0
          THEN /\ Suspend(t, "done")
               /\ UNCHANGED <<task_calls, task_index>>
          ELSE /\ Suspend(t, "await_call_tool")
               /\ task_calls' = [task_calls EXCEPT ![t] = requested]
               /\ task_index' = [task_index EXCEPT ![t] = 1]
    /\ UNCHANGED <<turn_vars, server>>

\* lines 208-230: call_tool returns or raises; the loop awaits the next call
\* or the second create call is made
TaskToolReply(t) ==
    /\ running = 0
    /\ task_pc[t] = "await_call_tool"
    /\ \E step \in { "returned", "raised" } :
          IF step = "raised"
          THEN /\ Suspend(t, "fallback")
               /\ UNCHANGED task_index
          ELSE IF loop_exhausted(task_index[t], [i \in 1 .. task_calls[t] |-> i])
          THEN /\ KeepThread(t, "in_second_create")
               /\ UNCHANGED task_index
          ELSE /\ Suspend(t, "await_call_tool")
               /\ task_index' = [task_index EXCEPT ![t] = next_index(task_index[t])]
    /\ UNCHANGED task_calls
    /\ UNCHANGED <<turn_vars, server>>

\* lines 226-247: the second reply and the return statement
TaskSecondReply(t) ==
    /\ running = t
    /\ task_pc[t] = "in_second_create"
    /\ \E step \in { "returned", "raised" } :
          Suspend(t, IF step = "raised" THEN "fallback" ELSE "done")
    /\ UNCHANGED <<task_calls, task_index>>
    /\ UNCHANGED <<turn_vars, server>>

TaskStep(t) ==
    \/ TaskBegin(t)
    \/ TaskFirstRequest(t)
    \/ TaskFirstReply(t)
    \/ TaskToolReply(t)
    \/ TaskSecondReply(t)

InitLoop ==
    /\ TurnAtRest
    /\ ServerStart
    /\ OPENROUTER_API_KEY = "sk-or"
    /\ LoopStart

NextLoop ==
    \/ \E t \in Tasks : TaskBegin(t)
    \/ \E t \in Tasks : TaskFirstRequest(t)
    \/ \E t \in Tasks : TaskFirstReply(t)
    \/ \E t \in Tasks : TaskToolReply(t)
    \/ \E t \in Tasks : TaskSecondReply(t)

SpecLoop == InitLoop /\ [][NextLoop]_vars

\* ------------------------------------------------------------------ claims

\* C1: when the first reply carries N >= 1 tool calls, the returned
\* transcript has exactly N tool-role messages after that assistant message,
\* in the order the calls were requested, the i-th carrying the i-th call's
\* id, whatever the outcome of the individual invocations.
C1_ToolResultsInRequestOrder ==
    (pc \in Terminal /\ RequestedCalls # <<>>) =>
        /\ current_conversation[AssistantIndex] = assistant_message
        /\ Len(ToolMessagesAfterAssistant) = Len(RequestedCalls)
        /\ \A i \in DOMAIN RequestedCalls :
              /\ AssistantIndex + i <= Len(current_conversation)
              /\ current_conversation[AssistantIndex + i].role = "tool"
              /\ current_conversation[AssistantIndex + i].tool_call_id
                    = RequestedCalls[i].id

\* C2: when mcp_client.call_tool raises, the turn is not aborted: a tool-role
\* message is appended for that call, the remaining calls are executed and
\* the second completion is requested.
C2_InvocationFailureDoesNotAbort ==
    (pc \in Terminal /\ \E i \in DOMAIN invoked : invoked[i].raised) =>
        /\ \A i \in DOMAIN invoked :
              \E j \in DOMAIN AfterAssistant :
                  /\ AfterAssistant[j].role = "tool"
                  /\ AfterAssistant[j].tool_call_id = invoked[i].id
        /\ Len(ToolMessagesAfterAssistant) = Len(RequestedCalls)
        /\ second_request # NoValue

\* C3: a returned transcript pairs every requested call id with a later
\* tool-role message; on a failure it is the seeded history plus the user
\* message plus the fallback message, or the transcript of a full turn.
C3_ReturnedTranscriptWellFormed ==
    pc \in Terminal =>
        /\ WellFormed(current_conversation)
        /\ failure # "none" =>
              \/ current_conversation = FallbackTranscript
              \/ Len(ToolMessagesAfterAssistant) = Len(RequestedCalls)

\* C4: if discovery fails or returns no tools, the first completion request
\* has no tools field at all.
C4_NoToolsFieldWithoutTools ==
    (entry = "with_tools" /\ first_request # NoValue
        /\ (DiscoveryFailed \/ ~IsList(openai_tools) \/ openai_tools = PyList(<<>>)))
    => "tools" \notin DOMAIN first_request

\* C5: if the first completion call fails (exception, error reply, reply
\* without the choices structure), response_text is the fallback string and
\* the returned transcript is the seeded history, the user message and one
\* assistant message with that string.
C5_FirstCompletionFailureFallsBack ==
    (completion # NoValue /\ CompletionFailed(completion)) =>
        /\ pc = "fallback"
        /\ response_text = FallbackText
        /\ current_conversation = FallbackTranscript
        /\ current_conversation[Len(current_conversation)]
              = [role |-> "assistant", content |-> FallbackText]

C5_Witness ==
    /\ pc = "fallback"
    /\ completion # NoValue
    /\ ~completion.raised
    /\ "error" \in DOMAIN completion.value
    /\ chat_history # <<>>

\* C6: seed is idempotent, the head of a seeded history is the system message
\* with the canonical text, and so is the head of the transcript of a turn.
C6_SeedIdempotentCanonicalHead ==
    LET seeded == seed(chat_history)
    IN  /\ seed(seeded) = seeded
        /\ seeded[1].role = "system"
        /\ seeded[1].content = SYSTEM_PROMPT.content
        /\ pc # "init" =>
              /\ current_conversation[1].role = "system"
              /\ current_conversation[1].content = SYSTEM_PROMPT.content

C6_Witness ==
    /\ pc \in Terminal
    /\ chat_history # <<>>
    /\ chat_history[1].role = "system"
    /\ chat_history[1].content # SYSTEM_PROMPT.content
    /\ Len(current_conversation) = Len(chat_history) + 2

\* C7: list_tools returns an empty sequence when the discovery request ends
\* in a network error, a timeout or a non-success status.
C7_FailedDiscoveryGivesEmptyList ==
    DiscoveryFailed => openai_tools = PyList(<<>>)

\* C8: when a call's arguments text cannot be parsed, a tool-role message
\* with that call's id is appended, the provider is not invoked for that
\* call, and the turn goes on to the remaining calls and the second
\* completion.
C8_UnparsableArgumentsDoNotAbort ==
    pc \in Terminal =>
        \A i \in DOMAIN RequestedCalls :
            json_loads(RequestedCalls[i].function.arguments).raised =>
                /\ \E j \in DOMAIN AfterAssistant :
                      /\ AfterAssistant[j].role = "tool"
                      /\ AfterAssistant[j].tool_call_id = RequestedCalls[i].id
                /\ \A k \in DOMAIN invoked : invoked[k].id # RequestedCalls[i].id
                /\ Len(ToolMessagesAfterAssistant) = Len(RequestedCalls)
                /\ second_request # NoValue

\* C9: the response_text a turn returns is a text value, never None.
C9_ResponseTextIsText ==
    pc \in Terminal => response_text \notin { NoneVal, Unassigned }

\* C10: the second completion is requested without tools, tool calls in the
\* second reply are not executed, and a turn invokes at most as many tools
\* as the first reply requested.
C10_SingleLevelOfToolCalls ==
    /\ second_request # NoValue =>
          /\ "tools" \notin DOMAIN second_request
          /\ "tool_choice" \notin DOMAIN second_request
    /\ Len(invoked) <= Len(RequestedCalls)
    /\ \A i \in DOMAIN invoked : invoked[i].id = RequestedCalls[i].id
    /\ pc \in Terminal =>
          /\ Len(ToolMessagesAfterAssistant) <= Len(RequestedCalls)
          /\ ~has_tool_calls(current_conversation[Len(current_conversation)])

C10_Witness ==
    /\ pc = "done"
    /\ second_completion # NoValue
    /\ ~second_completion.raised
    /\ "choices" \in DOMAIN second_completion.value
    /\ second_completion.value.choices # <<>>
    /\ has_tool_calls(second_completion.value.choices[1].message)
    /\ Len(invoked) = MaxToolCalls

\* C11: a turn never changes the caller's history list: no step of a turn
\* alters its items, and the transcript a turn returns is another list
\* object than the one the caller passed in.
C11_InputHistoryNotMutated ==
    [][ /\ chat_history' = chat_history
        /\ pc' \in Terminal => conversation_object' = "new" ]_vars

C11_Witness ==
    /\ pc \in Terminal
    /\ Len(chat_history) = MaxHistory
    /\ chat_history[1].role = "system"
    /\ chat_history[1].content # SYSTEM_PROMPT.content
    /\ current_conversation[1] = SYSTEM_PROMPT
    /\ Len(current_conversation) > Len(chat_history) + 2

\* the reply message of a completion outcome that has the choices structure
ReplyMessage(outcome) == outcome.value.choices[1].message

IsCreate(c) == c = "create"

UserMessage == [role |-> "user", content |-> customer_query]

\* C13: from an empty history, when the first reply requests N tool calls
\* that all succeed and the second completion answers, the returned
\* transcript is [system, user, assistant-with-tool-calls, N tool results,
\* assistant-final] and response_text is the content of the last message.
C13_ToolRoundTripTranscript ==
    (entry = "with_tools" /\ pc = "done" /\ chat_history = <<>>
        /\ RequestedCalls # <<>>) =>
        LET n == Len(RequestedCalls)
        IN  /\ Len(current_conversation) = n + 4
            /\ current_conversation[1] = SYSTEM_PROMPT
            /\ current_conversation[2] = UserMessage
            /\ current_conversation[3] = assistant_message
            /\ \A i \in 1 .. n :
                  /\ current_conversation[3 + i].role = "tool"
                  /\ current_conversation[3 + i].tool_call_id = RequestedCalls[i].id
                  /\ current_conversation[3 + i].name = RequestedCalls[i].function.name
            /\ current_conversation[n + 4]
                  = [role |-> "assistant", content |-> response_text]
            /\ response_text = ReplyMessage(second_completion).content

C13_Witness ==
    /\ entry = "with_tools"
    /\ pc = "done"
    /\ chat_history = <<>>
    /\ Len(RequestedCalls) = 1
    /\ Len(current_conversation) = 5
    /\ response_text = ReplyText

\* C14: for any input history, when the first completion succeeds without
\* tool calls, the returned transcript is seed(input) followed by the user
\* message and one assistant message with the reply's content, and exactly
\* one completion call was made.
C14_PlainReplyTranscript ==
    (/\ completion # NoValue
     /\ ~CompletionFailed(completion)
     /\ "content" \in DOMAIN ReplyMessage(completion)
     /\ (entry = "with_history" \/ ~has_tool_calls(ReplyMessage(completion)))) =>
        /\ pc = "done"
        /\ current_conversation =
              seed(chat_history)
                  \o << UserMessage,
                        [role |-> "assistant",
                         content |-> ReplyMessage(completion).content] >>
        /\ Len(current_conversation) = Len(seed(chat_history)) + 2
        /\ response_text = ReplyMessage(completion).content
        /\ Len(SelectSeq(calls, IsCreate)) = 1
        /\ second_request = NoValue

C14_Witness ==
    /\ entry = "with_tools"
    /\ pc = "done"
    /\ chat_history # <<>>
    /\ ~has_tool_calls(assistant_message)
    /\ response_text = ReplyText
    /\ Len(current_conversation) = Len(chat_history) + 3

\* C15: once the first reply carried tool calls, the assistant message
\* holding them is in the transcript, right after the user message, before
\* any tool is invoked and at every later point of the turn, failures
\* included.
C15_ToolRequestRecordedFirst ==
    (entry = "with_tools" /\ RequestedCalls # <<>>) =>
        /\ Len(current_conversation) >= AssistantIndex
        /\ current_conversation[AssistantIndex] = assistant_message
        /\ current_conversation[AssistantIndex - 1] = UserMessage

C15_Witness ==
    /\ pc = "fallback"
    /\ failure = "invocation"
    /\ Len(invoked) = 2
    /\ current_conversation[AssistantIndex] = assistant_message

\* a provider reply with the result.tools structure whose tools all carry
\* name, description and inputSchema
WellFormedCatalog(body) ==
    /\ "result" \in DOMAIN body
    /\ "tools" \in DOMAIN body.result
    /\ \A i \in DOMAIN body.result.tools : ToolKeys \subseteq DOMAIN body.result.tools[i]

LacksCatalog(body) ==
    \/ DOMAIN body = {}
    \/ "result" \notin DOMAIN body
    \/ "tools" \notin DOMAIN body.result

\* C16: the translation of a well-formed provider reply has one entry per
\* provider tool, in the provider's order, each {type: function, function:
\* {name, description, parameters}} with parameters the tool's inputSchema;
\* a reply that is empty or lacks result or result.tools gives the empty list.
C16_CatalogTranslation ==
    (jsonrpc_response # NoValue) =>
        /\ WellFormedCatalog(jsonrpc_response) =>
              LET tools == jsonrpc_response.result.tools
              IN  /\ IsList(openai_tools)
                  /\ Len(openai_tools.list) = Len(tools)
                  /\ \A i \in DOMAIN tools :
                        LET t == openai_tools.list[i]
                        IN  /\ DOMAIN t = { "type", "function" }
                            /\ t.type = "function"
                            /\ DOMAIN t.function = { "name", "description", "parameters" }
                            /\ t.function.name = tools[i].name
                            /\ t.function.description = tools[i].description
                            /\ t.function.parameters = tools[i].inputSchema
        /\ LacksCatalog(jsonrpc_response) => openai_tools = PyList(<<>>)

C16_Witness ==
    /\ jsonrpc_response # NoValue
    /\ WellFormedCatalog(jsonrpc_response)
    /\ Len(jsonrpc_response.result.tools) = 2
    /\ openai_tools.list[1].function.name = LabelTool.name
    /\ openai_tools.list[2].function.parameters = LookupTool.inputSchema

\* the control transitions of a tool-enabled turn; discovery is the part of
\* INIT after the transcript was seeded
TurnTransitions ==
    { <<"init", "list_tools">>,
      <<"list_tools", "first_completion">>,
      <<"first_completion", "done">>,
      <<"first_completion", "executing_tools">>,
      <<"executing_tools", "executing_tools">>,
      <<"executing_tools", "final_completion">>,
      <<"final_completion", "done">>,
      <<"first_completion", "fallback">>,
      <<"executing_tools", "fallback">>,
      <<"final_completion", "fallback">> }

\* every requested call was invoked, in order, and its result is in the
\* transcript
AllCallsAnswered ==
    /\ Len(invoked) = Len(RequestedCalls)
    /\ Len(ToolMessagesAfterAssistant) = Len(RequestedCalls)
    /\ \A i \in DOMAIN RequestedCalls :
          /\ invoked[i].id = RequestedCalls[i].id
          /\ ~invoked[i].raised
          /\ ToolMessagesAfterAssistant[i].tool_call_id = RequestedCalls[i].id

\* C17: a tool-enabled turn takes only the transitions INIT ->
\* FIRST_COMPLETION -> DONE or INIT -> FIRST_COMPLETION -> EXECUTING_TOOLS ->
\* FINAL_COMPLETION -> DONE, or leaves by the fallback; the first completion
\* is requested after discovery, EXECUTING_TOOLS is entered only with at
\* least one tool call in the first reply, and the second completion is
\* requested only when every requested call was invoked and its result
\* appended.
C17_TurnTransitions ==
    [][ entry = "with_tools" =>
          /\ <<pc, pc'>> \in TurnTransitions
          /\ first_request' # first_request =>
                calls = <<"list_tools">> /\ openai_tools # NoValue
          /\ (pc = "first_completion" /\ pc' = "executing_tools") =>
                Len(RequestedCalls') >= 1
          /\ pc' = "final_completion" => AllCallsAnswered'
          /\ second_request' # second_request =>
                pc = "final_completion" /\ AllCallsAnswered ]_vars

C17_Witness ==
    /\ entry = "with_tools"
    /\ pc = "done"
    /\ Len(RequestedCalls) = 2
    /\ second_request # NoValue
    /\ calls = <<"list_tools", "create", "call_tool", "call_tool", "create">>

IsDiscovery(c) == c = "list_tools"

IsInvocation(c) == c = "call_tool"

\* C18: a tool-enabled turn issues exactly one discovery request, at most
\* two completion requests (exactly one when the first reply has no tool
\* calls or the first completion fails) and at most one provider invocation
\* per requested tool call, the i-th invocation being for the i-th call.
C18_NoRetries ==
    entry = "with_tools" =>
        /\ Len(SelectSeq(calls, IsDiscovery)) <= 1
        /\ pc \notin { "init", "list_tools" } => Len(SelectSeq(calls, IsDiscovery)) = 1
        /\ Len(SelectSeq(calls, IsCreate)) <= 2
        /\ (pc \in Terminal /\ RequestedCalls = <<>>) =>
              Len(SelectSeq(calls, IsCreate)) = 1
        /\ Len(SelectSeq(calls, IsInvocation)) = Len(invoked)
        /\ Len(invoked) <= Len(RequestedCalls)
        /\ \A i \in DOMAIN invoked : invoked[i].id = RequestedCalls[i].id

C18_Witness ==
    /\ entry = "with_tools"
    /\ pc = "fallback"
    /\ failure = "second_completion"
    /\ Len(invoked) = MaxToolCalls
    /\ Len(SelectSeq(calls, IsCreate)) = 2

\* the history the running turn was given, or the next one will be given
LatestTranscript == IF pc = "init" THEN chat_history ELSE current_conversation

\* C19: the transcript of a turn starts with seed(input history) followed by
\* the user message, and in a conversation that passes each returned
\* transcript on as the next history every earlier returned transcript is a
\* prefix of every later one.
C19_AppendOnlyAcrossTurns ==
    /\ pc # "init" =>
          IsPrefix(Append(seed(chat_history), UserMessage), current_conversation)
    /\ \A i \in DOMAIN returned :
          /\ IsPrefix(returned[i], LatestTranscript)
          /\ \A j \in DOMAIN returned : i <= j => IsPrefix(returned[i], returned[j])

C19_Witness ==
    /\ turn = MaxTurns
    /\ pc \in Terminal
    /\ Len(returned) = MaxTurns - 1
    /\ returned[1][1] = SYSTEM_PROMPT
    /\ Len(current_conversation) > Len(returned[Len(returned)]) + 2

\* C20: seeding changes only the head: a history that is empty or does not
\* start with a system message gets the canonical message in front (one
\* longer, the originals following in order); a system head with other
\* content is replaced (same length); a system head with the canonical
\* content leaves the history as it is; the messages after the head are the
\* original ones in every case.
C20_SeedChangesOnlyHead ==
    pc # "init" =>
        LET n == Len(chat_history)
        IN  IF chat_history = <<>> \/ chat_history[1].role # "system"
            THEN /\ current_conversation[1] = SYSTEM_PROMPT
                 /\ SubSeq(current_conversation, 2, n + 1) = chat_history
                 /\ current_conversation[n + 2] = UserMessage
            ELSE IF chat_history[1].content # SYSTEM_PROMPT.content
            THEN /\ current_conversation[1] = SYSTEM_PROMPT
                 /\ SubSeq(current_conversation, 2, n) = Tail(chat_history)
                 /\ current_conversation[n + 1] = UserMessage
            ELSE /\ SubSeq(current_conversation, 1, n) = chat_history
                 /\ current_conversation[n + 1] = UserMessage

C20_Witness ==
    /\ pc = "list_tools"
    /\ Len(chat_history) = MaxHistory
    /\ chat_history[1].role = "system"
    /\ chat_history[1].content # SYSTEM_PROMPT.content
    /\ chat_history[MaxHistory].role = "user"
    /\ Len(current_conversation) = MaxHistory + 1

LastMessage == current_conversation[Len(current_conversation)]

\* C22: on every return path of a turn the last message of the returned
\* transcript has role assistant and its content is the returned
\* response_text.
C22_LastMessageIsTheResponse ==
    pc \in Terminal =>
        /\ current_conversation # <<>>
        /\ LastMessage.role = "assistant"
        /\ LastMessage.content = response_text

C22_Witness ==
    /\ entry = "with_tools"
    /\ pc = "fallback"
    /\ failure = "second_completion"
    /\ Len(ToolMessagesAfterAssistant) = Len(RequestedCalls)
    /\ LastMessage.content = FallbackText

\* the messages the running turn appended after the user message
AppendedIndexes == (Len(seed(chat_history)) + 2) .. Len(current_conversation)

\* C24: every tool-role message a turn appends comes after the turn's
\* assistant message whose tool_calls hold a call with that tool_call_id, and
\* carries that call's function name, on success and on every failure path.
C24_NoOrphanToolResults ==
    \A k \in AppendedIndexes :
        current_conversation[k].role = "tool" =>
            /\ RequestedCalls # <<>>
            /\ current_conversation[AssistantIndex] = assistant_message
            /\ k > AssistantIndex
            /\ \E c \in DOMAIN RequestedCalls :
                  /\ RequestedCalls[c].id = current_conversation[k].tool_call_id
                  /\ RequestedCalls[c].function.name = current_conversation[k].name

C24_Witness ==
    /\ pc = "fallback"
    /\ failure \in { "arguments", "invocation" }
    /\ Len(ToolMessagesAfterAssistant) = 1
    /\ Len(RequestedCalls) = 2

\* how far the control of a turn is from its return statements
TurnStage ==
    CASE pc = "init" -> 5
      [] pc = "list_tools" -> 4
      [] pc \in { "first_completion", "completion" } -> 3
      [] pc = "executing_tools" -> 2
      [] pc = "final_completion" -> 1
      [] pc \in Terminal -> 0

\* iterations the loop over tool_calls still has to make
RemainingCalls ==
    IF pc = "executing_tools"
    THEN Len(assistant_message.tool_calls) + 1 - tool_index
    ELSE 0

\* C23: every turn terminates: each step moves the turn to a later stage or
\* uses up one of the finitely many requested tool calls, and when every
\* external call returns or fails the turn reaches DONE or the fallback exit.
C23_TurnTerminates ==
    /\ [][ /\ RemainingCalls' >= 0
           /\ \/ TurnStage' < TurnStage
              \/ TurnStage' = TurnStage /\ RemainingCalls' < RemainingCalls ]_vars
    /\ <>(pc \in Terminal)

C23_Witness ==
    /\ entry = "with_tools"
    /\ pc = "done"
    /\ Len(invoked) = MaxToolCalls
    /\ second_completion # NoValue

\* a turn waiting for the reply of a network call
WaitingOnNetwork(t) ==
    task_pc[t] \in { "await_list_tools", "in_first_create", "await_call_tool",
                     "in_second_create" }

\* a turn that has a step to take once it gets the thread
HasWork(t) == task_pc[t] \in { "init", "await_list_tools", "await_call_tool" }

\* C21: while a turn waits for discovery, a tool invocation or either
\* completion reply, every other turn that has a step to take can take it.
C21_TurnsDoNotBlockEachOther ==
    \A t \in Tasks, u \in Tasks :
        (t # u /\ WaitingOnNetwork(t) /\ HasWork(u)) => ENABLED TaskStep(u)

ClientEndpoints == { "/generate", "/execute_tool", "/available_tools" }

\* C25: when a step of startup_event failed, the global mcp_client is unset
\* and every request to /generate (with the key configured), /execute_tool
\* and /available_tools is rejected with 'MCP client not initialized'.
C25_FailedStartupLeavesClientUnset ==
    (startup = "complete" /\ startup_error # "none") =>
        /\ mcp_client = NoneVal
        /\ \A i \in DOMAIN responses :
              (/\ responses[i].endpoint \in ClientEndpoints
               /\ ~(responses[i].endpoint = "/generate" /\ OPENROUTER_API_KEY = "")) =>
                  /\ responses[i].status_code = InternalError
                  /\ responses[i].detail = NotInitialized

\* C26: a /generate or /api/chat response to a request whose completion
\* call was answered with a status other than 200 carries that status.
C26_UpstreamStatusPassedOn ==
    \A i \in DOMAIN responses :
        (/\ responses[i].endpoint \in { "/generate", "/api/chat" }
         /\ "upstream_status" \in DOMAIN responses[i]
         /\ responses[i].upstream_status # HttpOk) =>
            responses[i].status_code = responses[i].upstream_status
====
